---- MODULE Spec2Model ----
(***************************************************************************)
(* Model of package dbmaker (word_db_server): the lexicon database build   *)
(* (CreateLexiconDatabase) and the schema migrator                         *)
(* (MigrateLexiconDatabase) over one sqlite dataset file.                  *)
(*                                                                         *)
(* Letters are small integers (1 = "A", 2 = "B", and in the lines of a     *)
(* word list file also 3 = "a", 4 = "b"); a word or an alphagram is a      *)
(* sequence of letters.  Go compares strings bytewise, which on these      *)
(* one-byte letters is the lexicographic order LexLess.                    *)
(*                                                                         *)
(* A table is the sequence of its rows in insertion order.  An integer     *)
(* column that holds SQL NULL holds Null.                                  *)
(***************************************************************************)
EXTENDS Integers, Sequences, FiniteSets, TLC

(***************************************************************************)
(* Bounds of the model.                                                    *)
(***************************************************************************)
\* the longest word list file that is scanned
MaxLines == 3
\* the longest word list a dataset of an earlier version was built from
MaxLegacyLines == 2

(***************************************************************************)
(* Program constants.                                                      *)
(***************************************************************************)
CurrentVersion == 6
\* var probs [16]uint32
ProbsLen == 16
\* if wl <= 15 { probs[wl]++ }
MaxRankedLen == 15
\* uint8 arithmetic of pointValue / numVowels
Uint8Mod == 256

Null == 0 - 1
None == <<"none">>

(***************************************************************************)
(* Inputs: the word universe and the lexicon registry.                     *)
(***************************************************************************)
LongWord == [i \in 1..ProbsLen |-> 1]

WordUniverse == { <<1>>, <<1, 2>>, <<2, 1>>, <<1, 1>>, LongWord }

\* the letters strings.ToUpper leaves alone; it maps 3 to 1 and 4 to 2
UpperLetters == {1, 2}

\* the letters whose UTF-8 encoding takes two bytes (5 stands for an
\* upper-case letter outside ASCII, which sorts after the ASCII letters)
TwoByteLetters == {5}

\* len(s) of a Go string: its number of bytes
RECURSIVE ByteLen(_)
ByteLen(s) ==
    IF s = <<>> THEN 0
    ELSE (IF Head(s) \in TwoByteLetters THEN 2 ELSE 1) + ByteLen(Tail(s))

\* len([]rune(s)): its number of characters
RuneLen(s) == Len(s)

ToUpperLetter(l) ==
    IF l \in UpperLetters THEN l ELSE l - Cardinality(UpperLetters)

\* strings.ToUpper
ToUpper(s) == [i \in DOMAIN s |-> ToUpperLetter(s[i])]

\* the first field of a line of a word list file: a word of the universe,
\* a word in mixed case ("aB"), or nothing when the line has no field
FirstFields == WordUniverse \cup { <<>>, <<3, 2>> }

WordListFiles == UNION { [1..n -> FirstFields] : n \in 0..MaxLines }

\* the loop of populateAlphsDefs over scanner.Scan(): word.Word of each line
\* that has a field, in the order of the lines
RECURSIVE ScannedWords(_)
ScannedWords(file) ==
    IF file = <<>> THEN <<>>
    ELSE (IF Head(file) = <<>> THEN <<>> ELSE << ToUpper(Head(file)) >>)
           \o ScannedWords(Tail(file))

\* the words populateAlphsDefs scans from the file, or from no file at all:
\* the error of os.Open is dropped and a Scanner on a nil file scans nothing
WordLists(missing) ==
    IF missing THEN { <<>> }
    ELSE { ScannedWords(file) : file \in WordListFiles }

\* the values lexiconInfo.Combinations may return
CombosChoices == {1, 2}

Families == {"CSW", "TWL", "OTHER"}

\* the word list of the prior edition of the family, or None
PriorChoices == { None, << <<2, 5>>, <<1, 1>> >> }

\* the dictionaries of the newest edition of each family
LatestCSWWords == { <<1>>, <<1, 2>>, <<2, 1>>, LongWord }
LatestTWLWords == { <<1>>, <<1, 2>>, <<1, 1>> }

\* alphabet.LetterDistribution: PointValues and Vowels
PointValues(letter) == IF letter = 1 THEN 1 ELSE 3
Vowels == {1}

LexiconUpdateSymbol == "+"
CSWOnlySymbol == "#"
TWLOnlySymbol == "$"

(***************************************************************************)
(* Helpers on sequences.                                                   *)
(***************************************************************************)
Range(s) == { s[i] : i \in DOMAIN s }

Perms(S) == { p \in [1..Cardinality(S) -> S] : Range(p) = S }

\* Go's string comparison s < t
RECURSIVE LexLess(_, _)
LexLess(s, t) ==
    IF t = <<>> THEN FALSE
    ELSE IF s = <<>> THEN TRUE
    ELSE IF Head(s) # Head(t) THEN Head(s) < Head(t)
    ELSE LexLess(Tail(s), Tail(t))

\* alphabet.Word.MakeAlphagram: the letters of the word in letter order
RECURSIVE InsertLetter(_, _)
InsertLetter(l, s) ==
    IF s = <<>> THEN <<l>>
    ELSE IF l <= Head(s) THEN <<l>> \o s
    ELSE <<Head(s)>> \o InsertLetter(l, Tail(s))

RECURSIVE MakeAlphagram(_)
MakeAlphagram(w) ==
    IF w = <<>> THEN <<>> ELSE InsertLetter(Head(w), MakeAlphagram(Tail(w)))

(***************************************************************************)
(* type Alphagram and its methods.                                         *)
(***************************************************************************)
RECURSIVE pointValue(_)
pointValue(alphagram) ==
    IF alphagram = <<>> THEN 0
    ELSE (PointValues(Head(alphagram)) + pointValue(Tail(alphagram))) % Uint8Mod

RECURSIVE numVowels(_)
numVowels(alphagram) ==
    IF alphagram = <<>> THEN 0
    ELSE ((IF Head(alphagram) \in Vowels THEN 1 ELSE 0)
            + numVowels(Tail(alphagram))) % Uint8Mod

\* AlphByCombos.Less on two Alphagram values
LessNoTieBreak(a, b) == a.combinations > b.combinations

Less(a, b) ==
    IF a.combinations = b.combinations
    THEN LexLess(a.alphagram, b.alphagram)
    ELSE a.combinations > b.combinations

\* sort.Sort on a short slice is insertion sort: each element moves left
\* while it is Less than its left neighbour
RECURSIVE SinkLeft(_, _)
SinkLeft(sorted, x) ==
    IF sorted = <<>> THEN <<x>>
    ELSE IF Less(x, sorted[Len(sorted)])
         THEN SinkLeft(SubSeq(sorted, 1, Len(sorted) - 1), x)
                \o <<sorted[Len(sorted)]>>
         ELSE sorted \o <<x>>

\* the slice left in the order alphaMapValues yielded it
SortByCombosSkipped(s) == s

RECURSIVE SortByCombos(_)
SortByCombos(s) ==
    IF s = <<>> THEN <<>>
    ELSE SinkLeft(SortByCombos(SubSeq(s, 1, Len(s) - 1)), s[Len(s)])

\* sort.Strings
RECURSIVE SinkLeftString(_, _)
SinkLeftString(sorted, x) ==
    IF sorted = <<>> THEN <<x>>
    ELSE IF LexLess(x, sorted[Len(sorted)])
         THEN SinkLeftString(SubSeq(sorted, 1, Len(sorted) - 1), x)
                \o <<sorted[Len(sorted)]>>
         ELSE sorted \o <<x>>

\* the slice left in the order the map yielded the words
SortStringsSkipped(s) == s

RECURSIVE SortStrings(_)
SortStrings(s) ==
    IF s = <<>> THEN <<>>
    ELSE SinkLeftString(SortStrings(SubSeq(s, 1, Len(s) - 1)), s[Len(s)])

(***************************************************************************)
(* The schema: tables, columns and indices.  A statement of a script adds  *)
(* items; it fails when an item of that name exists or when the table or   *)
(* column it refers to does not.                                           *)
(***************************************************************************)
Table(t) == [kind |-> "table", name |-> t, table |-> t, on |-> ""]
Column(t, c) == [kind |-> "column", name |-> c, table |-> t, on |-> ""]
Index(n, t, cols) == [kind |-> "index", name |-> n, table |-> t, on |-> cols]

CreateTable(t, cols) ==
    [adds |-> {Table(t)} \cup { Column(t, c) : c \in cols }, needs |-> {}]
AddColumn(t, c) == [adds |-> {Column(t, c)}, needs |-> {Table(t)}]
CreateIndex(n, t, cols, needed) ==
    [adds |-> {Index(n, t, cols)},
     needs |-> {Table(t)} \cup { Column(t, c) : c \in needed }]

Conflicts(item, schema) ==
    \E i \in schema : i.kind = item.kind /\ i.name = item.name
                        /\ (item.kind = "column" => i.table = item.table)

CanApply(stmt, schema) ==
    /\ stmt.needs \subseteq schema
    /\ \A item \in stmt.adds : ~Conflicts(item, schema)

\* the schema after the first n statements of a script
RECURSIVE ApplyStmts(_, _, _)
ApplyStmts(stmts, n, schema) ==
    IF n = 0 THEN schema
    ELSE ApplyStmts(Tail(stmts), n - 1, schema \cup Head(stmts).adds)

\* whether the first n statements of a script can run one after the other
RECURSIVE CanApplyFirst(_, _, _)
CanApplyFirst(stmts, n, schema) ==
    IF n = 0 THEN TRUE
    ELSE /\ CanApply(Head(stmts), schema)
         /\ CanApplyFirst(Tail(stmts), n - 1, schema \cup Head(stmts).adds)

\* sqlStmt of createSqliteDb
CreateDbStmts ==
    << CreateTable("alphagrams",
         {"probability", "alphagram", "length", "combinations", "num_anagrams",
          "point_value", "num_vowels", "contains_word_uniq_to_lex_split",
          "contains_update_to_lex", "difficulty"}),
       CreateTable("words",
         {"word", "alphagram", "lexicon_symbols", "definition", "front_hooks",
          "back_hooks", "inner_front_hook", "inner_back_hook"}),
       CreateTable("deletedwords", {"word", "length"}),
       CreateIndex("alpha_index", "alphagrams", "alphagram", {"alphagram"}),
       CreateIndex("prob_index", "alphagrams", "probability,length",
                   {"probability", "length"}),
       CreateIndex("word_index", "words", "word", {"word"}),
       CreateIndex("alphagram_index", "words", "alphagram", {"alphagram"}),
       CreateIndex("length_index", "alphagrams", "length", {"length"}),
       CreateIndex("difficulty_index", "alphagrams", "difficulty", {"difficulty"}),
       CreateIndex("num_anagrams_index", "alphagrams", "num_anagrams",
                   {"num_anagrams"}),
       CreateIndex("point_value_index", "alphagrams", "point_value",
                   {"point_value"}),
       CreateIndex("num_vowels_index", "alphagrams", "num_vowels", {"num_vowels"}),
       CreateIndex("uniq_word_index", "alphagrams",
                   "contains_word_uniq_to_lex_split",
                   {"contains_word_uniq_to_lex_split"}),
       CreateIndex("update_word_index", "alphagrams", "contains_update_to_lex",
                   {"contains_update_to_lex"}),
       CreateTable("db_version", {"version"}) >>

\* the schema MigrateLexiconDatabase documents as the minimum it assumes,
\* with or without the num_anagrams column
LegacyStmts(withNumAnagrams) ==
    << CreateTable("alphagrams",
         {"probability", "alphagram", "length", "combinations"}
           \cup (IF withNumAnagrams THEN {"num_anagrams"} ELSE {})),
       CreateTable("words",
         {"word", "alphagram", "lexicon_symbols", "definition", "front_hooks",
          "back_hooks", "inner_front_hook", "inner_back_hook"}),
       CreateIndex("alpha_index", "alphagrams", "alphagram", {"alphagram"}),
       CreateIndex("prob_index", "alphagrams", "probability,length",
                   {"probability", "length"}),
       CreateIndex("word_index", "words", "word", {"word"}),
       CreateIndex("alphagram_index", "words", "alphagram", {"alphagram"}) >>

\* a migrateToV3 that creates no index
MigrateToV3StmtsNone == << >>

\* the schema statement of migrateToV3
MigrateToV3Stmts ==
    << CreateIndex("length_index", "alphagrams", "length", {"length"}) >>

\* the schema statements of migrateToV2 .. migrateToV6, by target version
MigrationStmts(target) ==
    CASE target = 2 ->
           << AddColumn("alphagrams", "num_anagrams"),
              AddColumn("alphagrams", "point_value"),
              AddColumn("alphagrams", "num_vowels"),
              CreateIndex("num_anagrams_index", "alphagrams", "num_anagrams",
                          {"num_anagrams"}),
              CreateIndex("point_value_index", "alphagrams", "point_value",
                          {"point_value"}),
              CreateIndex("num_vowels_index", "alphagrams", "num_vowels",
                          {"num_vowels"}) >>
      [] target = 3 -> MigrateToV3Stmts
      [] target = 4 ->
           << AddColumn("alphagrams", "contains_word_uniq_to_lex_split"),
              AddColumn("alphagrams", "contains_update_to_lex"),
              CreateIndex("uniq_word_index", "alphagrams",
                          "contains_word_uniq_to_lex_split",
                          {"contains_word_uniq_to_lex_split"}),
              CreateIndex("update_word_index", "alphagrams",
                          "contains_update_to_lex", {"contains_update_to_lex"}) >>
      [] target = 5 ->
           << AddColumn("alphagrams", "difficulty"),
              CreateIndex("difficulty_index", "alphagrams", "difficulty",
                          {"difficulty"}) >>
      [] target = 6 ->
           << CreateTable("deletedwords", {"word", "length"}) >>

(***************************************************************************)
(* Provenance symbols.  A symbol string is a sequence of one-character     *)
(* markers.                                                                *)
(***************************************************************************)
Contains(symbols, marker) == \E i \in DOMAIN symbols : symbols[i] = marker

\* gaddag.FindWord on the dictionary of a word list
FindWord(dawg, word) == word \in dawg

\* the family markers appended before the update marker
findLexSymbolsFamilyFirst(word, latestCSW, latestTWL, lexFamily, priorLex) ==
    LET s1 == IF lexFamily = "CSW" /\ ~FindWord(latestTWL, word)
              THEN <<CSWOnlySymbol>> ELSE <<>>
        s2 == IF lexFamily = "TWL" /\ ~FindWord(latestCSW, word)
              THEN Append(s1, TWLOnlySymbol) ELSE s1
        s3 == IF priorLex # None /\ ~FindWord(Range(priorLex), word)
              THEN Append(s2, LexiconUpdateSymbol) ELSE s2
    IN  s3

findLexSymbols(word, latestCSW, latestTWL, lexFamily, priorLex) ==
    LET s1 == IF priorLex # None /\ ~FindWord(Range(priorLex), word)
                   /\ ~Contains(<<>>, LexiconUpdateSymbol)
              THEN <<LexiconUpdateSymbol>> ELSE <<>>
        s2 == IF lexFamily = "CSW" /\ ~FindWord(latestTWL, word)
                   /\ ~Contains(s1, CSWOnlySymbol)
              THEN Append(s1, CSWOnlySymbol) ELSE s1
        s3 == IF lexFamily = "TWL" /\ ~FindWord(latestCSW, word)
                   /\ ~Contains(s2, TWLOnlySymbol)
              THEN Append(s2, TWLOnlySymbol) ELSE s2
    IN  s3

containsWordUniqueToLexSplit(lexSymbolsList) ==
    IF \E i \in DOMAIN lexSymbolsList :
          Contains(lexSymbolsList[i], "$") \/ Contains(lexSymbolsList[i], "#")
    THEN 1 ELSE 0

containsUpdateToLex(lexSymbolsList) ==
    IF \E i \in DOMAIN lexSymbolsList : Contains(lexSymbolsList[i], "+")
    THEN 1 ELSE 0

\* alphagramDifficulty looks the alphagram up in lexiconInfo.Difficulties
alphagramDifficulty(alphagram) == Len(alphagram) % 3

(***************************************************************************)
(* populateAlphsDefs and alphaMapValues.                                   *)
(***************************************************************************)
EmptyMap == [a \in {} |-> 0]

\* a map that is keyed by the word instead of by its alphagram
RECURSIVE populateAlphsKeyedByWord(_, _)
populateAlphsKeyedByWord(lines, comb) ==
    IF lines = <<>> THEN EmptyMap
    ELSE LET m == populateAlphsKeyedByWord(SubSeq(lines, 1, Len(lines) - 1), comb)
             word == lines[Len(lines)]
             alphagram == MakeAlphagram(word)
         IN  IF word \in DOMAIN m
             THEN [m EXCEPT ![word].words = Append(@, word)]
             ELSE [a \in DOMAIN m \cup {word} |->
                     IF a = word
                     THEN [words |-> <<word>>, combinations |-> comb[alphagram],
                           alphagram |-> alphagram]
                     ELSE m[a]]

\* a map whose class is not stored back after the append to alph.words
RECURSIVE populateAlphsNoWriteBack(_, _)
populateAlphsNoWriteBack(lines, comb) ==
    IF lines = <<>> THEN EmptyMap
    ELSE LET m == populateAlphsNoWriteBack(SubSeq(lines, 1, Len(lines) - 1), comb)
             word == lines[Len(lines)]
             alphagram == MakeAlphagram(word)
         IN  IF alphagram \in DOMAIN m
             THEN m
             ELSE [a \in DOMAIN m \cup {alphagram} |->
                     IF a = alphagram
                     THEN [words |-> <<word>>, combinations |-> comb[alphagram],
                           alphagram |-> alphagram]
                     ELSE m[a]]

\* the alphagram map after scanning the lines (the upper-cased first fields);
\* comb is the Combinations callback, called once for the first word of
\* each class
RECURSIVE populateAlphs(_, _)
populateAlphs(lines, comb) ==
    IF lines = <<>> THEN EmptyMap
    ELSE LET m == populateAlphs(SubSeq(lines, 1, Len(lines) - 1), comb)
             word == lines[Len(lines)]
             alphagram == MakeAlphagram(word)
         IN  IF alphagram \in DOMAIN m
             THEN [m EXCEPT ![alphagram].words = Append(@, word)]
             ELSE [a \in DOMAIN m \cup {alphagram} |->
                     IF a = alphagram
                     THEN [words |-> <<word>>, combinations |-> comb[alphagram],
                           alphagram |-> alphagram]
                     ELSE m[a]]

\* the keys of the definitions map after the scan of the lines
definitionWords(lines) == Range(lines)

AlphagramsOf(lines) == { MakeAlphagram(lines[i]) : i \in DOMAIN lines }

\* the orders in which ranging over the map can yield its values
alphaMapValues(theMap) ==
    { [i \in DOMAIN p |-> theMap[p[i]]] : p \in Perms(DOMAIN theMap) }

(***************************************************************************)
(* State.                                                                  *)
(***************************************************************************)
VARIABLES
    db,            \* the dataset file: what is committed
    tx,            \* the open transaction's view of the row tables
    op,            \* the entry point of the current or last invocation
    pc,            \* the position of the invocation
    definitions,   \* CreateLexiconDatabase: the keys of definitions
    scanned,       \* history: the number of lines populateAlphsDefs found a
                   \* word on
    alphagrams,    \* CreateLexiconDatabase: alphagrams, the map
    lexFamily,     \* CreateLexiconDatabase: lexFamily
    priorLex,      \* CreateLexiconDatabase: priorLex (its word list) or None
    alphs,         \* CreateLexiconDatabase: alphs, sorted
    idx,           \* CreateLexiconDatabase: idx of the loop over alphs, from 1
    probs,         \* CreateLexiconDatabase: probs
    deletedWords,  \* CreateLexiconDatabase: deletedWords
    insertFailed,  \* history: an Exec of wordStmt or alphStmt returned an error
    fileMissing,   \* history: os.Open of the word list file failed
    commitFailed,  \* history: a tx.Commit() of the invocation returned an error
    staleFile,     \* history: os.Remove left the old dataset in place
    altered,       \* history: the targets n whose migrateToV<n> has altered
                   \* the schema of this dataset file
    versionWrites, \* history: the INSERTs and UPDATEs of db_version the
                   \* invocation has executed
    version,       \* MigrateLexiconDatabase: version
    check,         \* MigrateLexiconDatabase: the "if version == check" reached
    pre,           \* the dataset as the migrator invocation found it
    applied        \* the migrateToV<n> calls of the invocation, in order

vars == << db, tx, op, pc, definitions, scanned, alphagrams, lexFamily, priorLex, alphs, idx, probs,
           deletedWords, insertFailed, fileMissing, commitFailed,
           staleFile, altered, versionWrites, version, check, pre, applied >>

buildLocals == << definitions, scanned, alphagrams, lexFamily, priorLex, alphs,
                 idx, probs, deletedWords, insertFailed, fileMissing,
                 commitFailed >>
migrateLocals == << version, check, applied >>
fileHistory == << staleFile, altered >>
history == << staleFile, altered, versionWrites >>

NoFile ==
    [exists |-> FALSE, schema |-> {}, alphagrams |-> <<>>, words |-> <<>>,
     deletedwords |-> <<>>, db_version |-> <<>>]

NoTx == [open |-> FALSE, alphagrams |-> <<>>, words |-> <<>>,
         deletedwords |-> <<>>]

\* db.Begin: the transaction starts from the committed rows
Begin(d) == [open |-> TRUE, alphagrams |-> d.alphagrams, words |-> d.words,
             deletedwords |-> d.deletedwords]

\* a commit that succeeds
Committed(d, t) == [d EXCEPT !.alphagrams = t.alphagrams, !.words = t.words,
                             !.deletedwords = t.deletedwords]

HasTable(d, t) == Table(t) \in d.schema

ZeroProbs == [l \in 0..(ProbsLen - 1) |-> 0]

\* an invocation can start when no other is running
Ended == {"idle", "done", "refused", "fatal", "panic"}

(***************************************************************************)
(* CreateLexiconDatabase.                                                  *)
(***************************************************************************)
\* the definition texts a word list file can give a word (fields[1:] joined
\* and expanded); the files the builds read give every word the first text
DefinitionTexts == {"text", "edited text"}
BuildText == "text"

WordRow(word, alphagram, symbols) ==
    [word |-> word, alphagram |-> alphagram, lexicon_symbols |-> symbols,
     definition |-> BuildText]

SymbolsOf(word, family, prior) ==
    findLexSymbols(word, LatestCSWWords, LatestTWLWords, family, prior)

\* lexSymbolsList after the loop over alph.words
LexSymbolsList(alph, family, prior) ==
    [i \in DOMAIN alph.words |-> SymbolsOf(alph.words[i], family, prior)]

\* the arguments of alphStmt.Exec; probability is probs[wl]
AlphRow(probability, alph, family, prior) ==
    [probability |-> probability,
     alphagram |-> alph.alphagram,
     length |-> RuneLen(alph.alphagram),
     combinations |-> alph.combinations,
     num_anagrams |-> Len(alph.words),
     point_value |-> pointValue(alph.alphagram),
     num_vowels |-> numVowels(alph.alphagram),
     contains_word_uniq_to_lex_split |->
         containsWordUniqueToLexSplit(LexSymbolsList(alph, family, prior)),
     contains_update_to_lex |->
         containsUpdateToLex(LexSymbolsList(alph, family, prior)),
     difficulty |-> alphagramDifficulty(alph.alphagram)]

\* "if quitIfExists { _, err := os.Stat(dbName); if err == nil { return"
RefusesWithoutStat(quitIfExists, exists) == quitIfExists
Refuses(quitIfExists, exists) == quitIfExists /\ exists

\* createSqliteDb up to os.Remove: refuses when the file exists and
\* quitIfExists is set; otherwise removes the file, and drops the error of
\* os.Remove when the file stays
createSqliteDb(quitIfExists) ==
    /\ pc \in Ended
    /\ op' = "build"
    /\ pre' = NoFile
    /\ tx' = NoTx
    /\ definitions' = {} /\ scanned' = 0 /\ alphagrams' = EmptyMap
    /\ lexFamily' = "OTHER" /\ priorLex' = None
    /\ alphs' = <<>> /\ idx' = 1 /\ probs' = ZeroProbs /\ deletedWords' = <<>>
    /\ insertFailed' = FALSE /\ fileMissing' = FALSE /\ commitFailed' = FALSE
    /\ version' = 0 /\ check' = 0 /\ applied' = <<>>
    /\ versionWrites' = 0
    /\ IF Refuses(quitIfExists, db.exists)
       THEN /\ pc' = "refused"
            /\ db' = db
            /\ staleFile' = FALSE
            /\ altered' = altered
       ELSE /\ pc' = "b_create"
            /\ \E removed \in BOOLEAN :
                 /\ db' = IF removed THEN NoFile ELSE db
                 /\ staleFile' = (~removed /\ db.schema # {})
                 /\ altered' = IF removed \/ ~db.exists THEN {} ELSE altered

\* createSqliteDb from sql.Open: db.Exec runs the schema script statement
\* by statement until one fails
CreateSchema ==
    /\ op = "build" /\ pc = "b_create"
    /\ \E n \in 0..Len(CreateDbStmts) :
         /\ CanApplyFirst(CreateDbStmts, n, db.schema)
         /\ db' = [db EXCEPT !.exists = (db.exists \/ n > 0),
                             !.schema = ApplyStmts(CreateDbStmts, n, db.schema)]
         /\ pc' = IF n = Len(CreateDbStmts) THEN "b_prepare" ELSE "fatal"
    /\ UNCHANGED << tx, op, buildLocals, pre, migrateLocals, history >>

\* lines 182-226: scan the word list, sort, open the transaction, resolve
\* the family and the prior edition
BuildPrepare ==
    /\ op = "build" /\ pc = "b_prepare"
    /\ \/ /\ pc' = "fatal"
          /\ UNCHANGED << db, tx, buildLocals >>
       \/ \E missing \in BOOLEAN :
          \E ls \in WordLists(missing), fam \in Families, prior \in PriorChoices :
          \E comb \in [AlphagramsOf(ls) -> CombosChoices] :
          \E values \in alphaMapValues(populateAlphs(ls, comb)) :
            /\ fileMissing' = missing
            /\ alphagrams' = populateAlphs(ls, comb)
            /\ definitions' = definitionWords(ls)
            /\ scanned' = Len(ls)
            /\ alphs' = SortByCombos(values)
            /\ lexFamily' = fam
            /\ priorLex' = prior
            /\ tx' = Begin(db)
            /\ pc' = "b_loop"
            /\ UNCHANGED << db, idx, probs, deletedWords, insertFailed,
                            commitFailed >>
    /\ UNCHANGED << op, pre, migrateLocals, history >>

\* probs[wl]++ when wl <= 15 (a uint32 counter of alphagrams: it cannot wrap
\* on a word list of fewer than 2^32 lines)
BumpProbs(p, wl) ==
    IF wl <= MaxRankedLen THEN [p EXCEPT ![wl] = @ + 1] ELSE p

\* the word rows of one alphagram whose insert succeeded
RECURSIVE InsertedWords(_, _, _, _, _)
InsertedWords(alph, okw, n, family, prior) ==
    IF n = 0 THEN <<>>
    ELSE InsertedWords(alph, okw, n - 1, family, prior)
           \o (IF okw[n]
               THEN << WordRow(alph.words[n], alph.alphagram,
                               SymbolsOf(alph.words[n], family, prior)) >>
               ELSE <<>>)

\* exitIfError after alphStmt.Exec: a failed insert ends the process
AfterAlphExec(okAlph, withWords, probability, alph) ==
    IF ~okAlph
    THEN /\ pc' = "fatal"
         /\ tx' = NoTx
         /\ idx' = idx
    ELSE /\ pc' = "b_loop"
         /\ tx' = [withWords EXCEPT !.alphagrams =
                     Append(@, AlphRow(probability, alph, lexFamily, priorLex))]
         /\ idx' = idx + 1

\* one iteration of the loop over alphs (lines 228-267): the error of
\* wordStmt.Exec is dropped, the error of alphStmt.Exec is fatal, and
\* probs[wl] is evaluated for every wl
BuildAlph ==
    /\ op = "build" /\ pc = "b_loop" /\ idx <= Len(alphs)
    /\ LET alph == alphs[idx]
           wl == RuneLen(alph.alphagram)
           newProbs == BumpProbs(probs, wl)
       IN  \E okw \in [DOMAIN alph.words -> BOOLEAN], okAlph \in BOOLEAN :
             LET withWords ==
                   [tx EXCEPT !.words = @ \o InsertedWords(alph, okw,
                                   Len(alph.words), lexFamily, priorLex)]
             IN  /\ probs' = newProbs
                 /\ IF wl \notin DOMAIN newProbs
                    THEN /\ pc' = "panic"
                         /\ tx' = NoTx
                         /\ idx' = idx
                         /\ insertFailed' =
                              (insertFailed \/ \E i \in DOMAIN okw : ~okw[i])
                    ELSE /\ insertFailed' =
                              (insertFailed \/ ~okAlph
                                 \/ \E i \in DOMAIN okw : ~okw[i])
                         /\ AfterAlphExec(okAlph, withWords, newProbs[wl], alph)
    /\ UNCHANGED << db, op, definitions, scanned, alphagrams, lexFamily,
                    priorLex, alphs, deletedWords, fileMissing, commitFailed, pre, migrateLocals, history >>

\* tx.Commit() with its error dropped, then the scan of the prior edition
\* for deleted words (lines 268-281), in the order the map yields them
BuildCommit ==
    /\ op = "build" /\ pc = "b_loop" /\ idx = Len(alphs) + 1
    /\ \E ok \in BOOLEAN : /\ db' = IF ok THEN Committed(db, tx) ELSE db
                           /\ commitFailed' = ~ok
    /\ tx' = NoTx
    /\ IF priorLex = None
       THEN deletedWords' = <<>>
       ELSE \E order \in Perms(definitionWords(priorLex)) :
              deletedWords' =
                SelectSeq(order, LAMBDA w : ~FindWord(definitions, w))
    /\ pc' = "b_deleted"
    /\ UNCHANGED << op, definitions, scanned, alphagrams, lexFamily, priorLex,
                    alphs, idx, probs, insertFailed, fileMissing, pre, migrateLocals,
                    history >>

DeletedRows(words) == [i \in DOMAIN words |->
                         [word |-> words[i], length |-> ByteLen(words[i])]]

\* lines 287-301: the deleted words, sorted, in a transaction of their own
\* whose Commit error is dropped
BuildDeleted ==
    /\ op = "build" /\ pc = "b_deleted"
    /\ IF Len(deletedWords) > 0
       THEN \E outcome \in {"failed", "committed", "rolled back"} :
              /\ deletedWords' = SortStrings(deletedWords)
              /\ pc' = IF outcome = "failed" THEN "fatal" ELSE "b_version"
              /\ db' = IF outcome = "committed"
                       THEN [db EXCEPT !.deletedwords =
                               @ \o DeletedRows(SortStrings(deletedWords))]
                       ELSE db
              /\ commitFailed' = (commitFailed \/ outcome = "rolled back")
       ELSE /\ pc' = "b_version"
            /\ UNCHANGED << db, deletedWords, commitFailed >>
    /\ UNCHANGED << tx, op, definitions, scanned, alphagrams, lexFamily,
                    priorLex, alphs, idx, probs, insertFailed, fileMissing, pre, migrateLocals,
                    history >>

\* the version stamp written right after the main commit, before the
\* deleted words
BuildVersionBeforeDeleted ==
    /\ op = "build" /\ pc = "b_deleted"
    /\ db.db_version = <<>> /\ HasTable(db, "db_version")
    /\ db' = [db EXCEPT !.db_version = Append(@, CurrentVersion)]
    /\ versionWrites' = versionWrites + 1
    /\ pc' = pc
    /\ UNCHANGED << tx, op, buildLocals, pre, migrateLocals, fileHistory >>

\* INSERT INTO db_version(version) VALUES(CurrentVersion)
BuildVersion ==
    /\ op = "build" /\ pc = "b_version"
    /\ \E ok \in BOOLEAN :
         IF ok /\ HasTable(db, "db_version")
         THEN /\ db' = [db EXCEPT !.db_version = Append(@, CurrentVersion)]
              /\ versionWrites' = versionWrites + 1
              /\ pc' = "done"
         ELSE /\ db' = db
              /\ versionWrites' = versionWrites
              /\ pc' = "fatal"
    /\ UNCHANGED << tx, op, buildLocals, pre, migrateLocals, fileHistory >>

CreateLexiconDatabase ==
    \/ \E quitIfExists \in BOOLEAN : createSqliteDb(quitIfExists)
    \/ CreateSchema
    \/ BuildPrepare
    \/ BuildAlph
    \/ BuildCommit
    \/ BuildDeleted
    \/ BuildVersion

(***************************************************************************)
(* MigrateLexiconDatabase.                                                 *)
(***************************************************************************)
\* the result of "SELECT version FROM db_version" when nothing else fails
VersionQuery(d) ==
    IF ~HasTable(d, "db_version") THEN "no such table"
    ELSE IF d.db_version = <<>> THEN "no rows"
    ELSE "nil"

\* the switch on err (lines 454-479): where control goes
SwitchBootstrapsOnNoRows(err) ==
    CASE err = "no rows" -> "m_bootstrap"
      [] err = "no such table" -> "m_bootstrap"
      [] err = "other" -> "fatal"
      [] err = "nil" -> "m_check"

SwitchOnError(err) ==
    CASE err = "no rows" -> "fatal"
      [] err = "no such table" -> "m_bootstrap"
      [] err = "other" -> "fatal"
      [] err = "nil" -> "m_check"

\* version = 1 once the version table is created (line 468)
BootstrapVersionUnset == 1 - 1
BootstrapVersion == 1

\* sql.Open and "SELECT version FROM db_version" with the switch on its
\* error (lines 450-479); sqlite creates a missing file when it opens it
MigrateQuery ==
    /\ pc \in Ended
    /\ op' = "migrate"
    /\ pre' = db
    /\ tx' = NoTx
    /\ definitions' = {} /\ scanned' = 0 /\ alphagrams' = EmptyMap
    /\ lexFamily' = "OTHER" /\ priorLex' = None
    /\ alphs' = <<>> /\ idx' = 1 /\ probs' = ZeroProbs /\ deletedWords' = <<>>
    /\ insertFailed' = FALSE /\ fileMissing' = FALSE /\ commitFailed' = FALSE
    /\ staleFile' = FALSE /\ altered' = altered
    /\ applied' = <<>> /\ versionWrites' = 0
    /\ \E err \in {"other", VersionQuery(db)} :
         /\ pc' = SwitchOnError(err)
         /\ db' = IF err = "no such table" THEN [db EXCEPT !.exists = TRUE]
                  ELSE db
         /\ version' = IF err = "nil" THEN db.db_version[1] ELSE 0
         /\ check' = IF err = "nil" THEN 1 ELSE 0

\* lines 458-468: CREATE TABLE db_version, INSERT 1, version = 1
MigrateBootstrap ==
    /\ op = "migrate" /\ pc = "m_bootstrap"
    /\ \E created \in BOOLEAN, inserted \in BOOLEAN :
         LET stmt == CreateTable("db_version", {"version"})
         IN  IF ~(created /\ CanApply(stmt, db.schema))
             THEN /\ db' = db /\ pc' = "fatal"
                  /\ UNCHANGED << version, check, versionWrites >>
             ELSE IF ~inserted
             THEN /\ db' = [db EXCEPT !.schema = @ \cup stmt.adds]
                  /\ pc' = "fatal"
                  /\ UNCHANGED << version, check, versionWrites >>
             ELSE /\ db' = [db EXCEPT !.schema = @ \cup stmt.adds,
                                      !.db_version = Append(@, 1)]
                  /\ versionWrites' = versionWrites + 1
                  /\ version' = BootstrapVersion /\ check' = 1
                  /\ pc' = "m_check"
    /\ UNCHANGED << tx, op, buildLocals, pre, applied, fileHistory >>

\* where control goes when "if version == check" is done
AfterCheck(c) == IF c = CurrentVersion - 1 THEN "done" ELSE "m_check"
\* a chain of checks in which every other "if version == n" block is missing
NextCheckSkipping(c) ==
    IF c >= CurrentVersion - 2 THEN CurrentVersion - 1 ELSE c + 2
NextCheck(c) == IF c = CurrentVersion - 1 THEN c ELSE c + 1

\* the local variable the checks "if version == n" read after a migration ran
VersionRereadAfterStep(local, stored) == stored
VersionReadAfterStep(local, stored) == local

\* whether "if version == check" runs migrateToV<check+1>
RunsOnCurrent(v, c) == v = c + 1
Runs(v, c) == v = c

\* one of the five checks "if version == n { migrateToV<n+1>(...) }"
MigrateCheck ==
    /\ op = "migrate" /\ pc = "m_check"
    /\ IF Runs(version, check)
       THEN /\ applied' = Append(applied, check + 1)
            /\ pc' = "m_alter"
            /\ check' = check
       ELSE /\ applied' = applied
            /\ pc' = AfterCheck(check)
            /\ check' = NextCheck(check)
    /\ UNCHANGED << db, tx, op, buildLocals, pre, version, history >>

\* the first db.Exec of migrateToV<check+1>: the schema statements run one
\* by one, each committed on its own, until one fails
MigrateAlter ==
    /\ op = "migrate" /\ pc = "m_alter"
    /\ LET stmts == MigrationStmts(check + 1)
       IN  \E n \in 0..Len(stmts) :
             /\ CanApplyFirst(stmts, n, db.schema)
             /\ db' = [db EXCEPT !.schema = ApplyStmts(stmts, n, db.schema)]
             /\ pc' = IF n < Len(stmts) THEN "fatal"
                      ELSE IF check + 1 \in {2, 4} THEN "m_backfill"
                      ELSE IF check + 1 = 5 THEN "m_loaddiff"
                      ELSE "m_setversion"
             /\ altered' = IF n > 0 THEN altered \cup {check + 1} ELSE altered
    /\ UNCHANGED << tx, op, buildLocals, pre, migrateLocals, staleFile,
                    versionWrites >>

\* migrateToV2's SELECT: one entry per alphagram of the join of words and
\* alphagrams, with the count of the joined rows as a uint8
WordCounts(d) ==
    { [alphagram |-> a,
       wordCount |->
         Cardinality({ <<i, j>> \in (DOMAIN d.words) \X (DOMAIN d.alphagrams) :
                         d.words[i].alphagram = a
                         /\ d.alphagrams[j].alphagram = a }) % Uint8Mod] :
      a \in { d.words[i].alphagram : i \in DOMAIN d.words }
              \cap { d.alphagrams[j].alphagram : j \in DOMAIN d.alphagrams } }

\* UPDATE alphagrams SET num_anagrams, point_value, num_vowels WHERE alphagram
BackfillV2(d) ==
    [j \in DOMAIN d.alphagrams |->
       LET row == d.alphagrams[j]
           hits == { e \in WordCounts(d) : e.alphagram = row.alphagram }
       IN  IF hits = {} THEN row
           ELSE [row EXCEPT !.num_anagrams = (CHOOSE e \in hits : TRUE).wordCount,
                            !.point_value = pointValue(row.alphagram),
                            !.num_vowels = numVowels(row.alphagram)]]

\* the orders "SELECT ... from words order by alphagram" can return; rows
\* that are all equal come back as the same sequence in every order
OrderedByAlphagram(words) ==
    IF \A i \in DOMAIN words : words[i] = words[1]
    THEN { [i \in DOMAIN words |-> i] }
    ELSE { p \in Perms(DOMAIN words) :
             \A i \in DOMAIN p : \A j \in DOMAIN p :
               i < j => ~LexLess(words[p[j]].alphagram, words[p[i]].alphagram) }

\* migrateToV4's loop over the rows: one iteration, on the state
\* [alphagrams, lastAlph, lastLexSymbolsList]
GroupStep(st, row) ==
    LET flush == row.alphagram # st.lastAlph /\ st.lastAlph # <<>>
    IN  [alphagrams |->
           IF flush
           THEN Append(st.alphagrams,
                  [alphagram |-> st.lastAlph,
                   uniqToLexSplit |->
                     containsWordUniqueToLexSplit(st.lastLexSymbolsList),
                   updateToLex |->
                     containsUpdateToLex(st.lastLexSymbolsList)])
           ELSE st.alphagrams,
         lastAlph |-> row.alphagram,
         lastLexSymbolsList |->
           Append(IF flush THEN <<>> ELSE st.lastLexSymbolsList,
                  row.lexicon_symbols)]

\* the iterations on rows[lo..hi] in turn, from state st; the range is
\* halved, and the state after the first half is a value before the second
\* half starts, so that a long table does not nest the evaluation deeply
RECURSIVE GroupScanFrom(_, _, _, _)
GroupScanFrom(st, rows, lo, hi) ==
    IF lo > hi THEN st
    ELSE IF lo = hi THEN GroupStep(st, rows[lo])
    ELSE LET mid == (lo + hi) \div 2
             half == GroupScanFrom(st, rows, lo, mid)
         IN  IF half \in {half} THEN GroupScanFrom(half, rows, mid + 1, hi)
             ELSE half

\* the state of the loop after the first n rows
GroupScan(rows, n) ==
    GroupScanFrom([alphagrams |-> <<>>, lastAlph |-> <<>>,
                   lastLexSymbolsList |-> <<>>], rows, 1, n)

\* the alphagrams slice without the entry of the very last group
GroupedFlagsWithoutLast(rows) == GroupScan(rows, Len(rows)).alphagrams

\* the alphagrams slice once "the very last one" is appended
GroupedFlags(rows) ==
    LET st == GroupScan(rows, Len(rows))
    IN  Append(st.alphagrams,
          [alphagram |-> st.lastAlph,
           uniqToLexSplit |-> containsWordUniqueToLexSplit(st.lastLexSymbolsList),
           updateToLex |-> containsUpdateToLex(st.lastLexSymbolsList)])

\* UPDATE alphagrams SET the two flags WHERE alphagram, for each entry in turn
RECURSIVE ApplyFlags(_, _, _)
ApplyFlags(table, flags, n) ==
    IF n = 0 THEN table
    ELSE LET before == ApplyFlags(table, flags, n - 1)
         IN  [j \in DOMAIN before |->
                IF before[j].alphagram = flags[n].alphagram
                THEN [before[j] EXCEPT
                        !.contains_word_uniq_to_lex_split = flags[n].uniqToLexSplit,
                        !.contains_update_to_lex = flags[n].updateToLex]
                ELSE before[j]]

BackfillV4(d, order) ==
    LET rows == [i \in DOMAIN order |-> d.words[order[i]]]
        flags == GroupedFlags(rows)
    IN  ApplyFlags(d.alphagrams, flags, Len(flags))

\* migrateToV2 / migrateToV4 from db.Query to the last updateStmt.Exec: any
\* failure is fatal before anything is committed
MigrateBackfill ==
    /\ op = "migrate" /\ pc = "m_backfill"
    /\ \/ /\ pc' = "fatal"
          /\ tx' = NoTx
       \/ /\ check + 1 = 2
          /\ tx' = [Begin(db) EXCEPT !.alphagrams = BackfillV2(db)]
          /\ pc' = "m_commit"
       \/ /\ check + 1 = 4
          /\ \E order \in OrderedByAlphagram(db.words) :
               tx' = [Begin(db) EXCEPT !.alphagrams = BackfillV4(db, order)]
          /\ pc' = "m_commit"
    /\ UNCHANGED << db, op, buildLocals, pre, migrateLocals, history >>

\* tx.Commit() of migrateToV2 / migrateToV4, its error dropped
MigrateCommit ==
    /\ op = "migrate" /\ pc = "m_commit"
    /\ \E ok \in BOOLEAN : /\ db' = IF ok THEN Committed(db, tx) ELSE db
                           /\ commitFailed' = ~ok
    /\ tx' = NoTx
    /\ pc' = "m_setversion"
    /\ UNCHANGED << op, definitions, scanned, alphagrams, lexFamily, priorLex,
                    alphs, idx, probs, deletedWords, insertFailed, fileMissing,
                    pre, migrateLocals, history >>

\* loadDifficulty: fills the difficulty column of every alphagram row
loadDifficulty(d) ==
    [d EXCEPT !.alphagrams =
       [j \in DOMAIN d.alphagrams |->
          [d.alphagrams[j] EXCEPT
             !.difficulty = alphagramDifficulty(d.alphagrams[j].alphagram)]]]

MigrateLoadDifficulty ==
    /\ op = "migrate" /\ pc = "m_loaddiff"
    /\ \E ok \in BOOLEAN :
         IF ok THEN db' = loadDifficulty(db) /\ pc' = "m_setversion"
               ELSE db' = db /\ pc' = "fatal"
    /\ UNCHANGED << tx, op, buildLocals, pre, migrateLocals, history >>

\* migrateToV<n> ending with INSERT INTO db_version instead of the UPDATE
MigrateSetVersionInserts ==
    /\ op = "migrate" /\ pc = "m_setversion"
    /\ HasTable(db, "db_version")
    /\ db' = [db EXCEPT !.db_version = Append(@, check + 1)]
    /\ versionWrites' = versionWrites + 1
    /\ pc' = AfterCheck(check)
    /\ check' = NextCheck(check)
    /\ UNCHANGED << tx, op, buildLocals, pre, version, applied, fileHistory >>

\* migrateToV<n> returning without its UPDATE of db_version
MigrateSetVersionSkipped ==
    /\ op = "migrate" /\ pc = "m_setversion"
    /\ pc' = AfterCheck(check)
    /\ check' = NextCheck(check)
    /\ UNCHANGED << db, tx, op, buildLocals, pre, version, applied, history >>

\* UPDATE db_version SET version = <check+1>, the last statement of each
\* migrateToV<n>; control returns to the next check of the caller
MigrateSetVersion ==
    /\ op = "migrate" /\ pc = "m_setversion"
    /\ \E ok \in BOOLEAN :
         IF ok /\ HasTable(db, "db_version")
         THEN /\ db' = [db EXCEPT !.db_version =
                          [i \in DOMAIN db.db_version |-> check + 1]]
              /\ pc' = AfterCheck(check)
              /\ check' = NextCheck(check)
              /\ version' = VersionReadAfterStep(version, check + 1)
              /\ versionWrites' = versionWrites + 1
         ELSE /\ db' = db
              /\ pc' = "fatal"
              /\ UNCHANGED << check, version, versionWrites >>
    /\ UNCHANGED << tx, op, buildLocals, pre, applied, fileHistory >>

MigrateLexiconDatabase ==
    \/ MigrateQuery
    \/ MigrateBootstrap
    \/ MigrateCheck
    \/ MigrateAlter
    \/ MigrateBackfill
    \/ MigrateCommit
    \/ MigrateLoadDifficulty
    \/ MigrateSetVersion

(***************************************************************************)
(* The datasets the tool can find: none, or one an earlier version of the  *)
(* tool built.                                                             *)
(***************************************************************************)
LegacyWordLists ==
    UNION { [1..n -> WordUniverse \ {LongWord}] : n \in 0..MaxLegacyLines }

\* the alphagram rows a build writes for the sorted alphs when no insert fails
RECURSIVE RankedRows(_, _, _, _)
RankedRows(sorted, n, family, prior) ==
    IF n = 0 THEN [probs |-> ZeroProbs, rows |-> <<>>]
    ELSE LET before == RankedRows(sorted, n - 1, family, prior)
             wl == RuneLen(sorted[n].alphagram)
             newProbs == BumpProbs(before.probs, wl)
         IN  [probs |-> newProbs,
              rows |-> Append(before.rows,
                         AlphRow(newProbs[wl], sorted[n], family, prior))]

RECURSIVE AllWordRows(_, _, _, _)
AllWordRows(sorted, n, family, prior) ==
    IF n = 0 THEN <<>>
    ELSE AllWordRows(sorted, n - 1, family, prior)
           \o InsertedWords(sorted[n], [i \in DOMAIN sorted[n].words |-> TRUE],
                            Len(sorted[n].words), family, prior)

\* the schema of a dataset at schema level v (1..6)
RECURSIVE SchemaAt(_, _)
SchemaAt(v, withNumAnagrams) ==
    IF v <= 1
    THEN ApplyStmts(LegacyStmts(withNumAnagrams),
                    Len(LegacyStmts(withNumAnagrams)), {})
    ELSE ApplyStmts(MigrationStmts(v), Len(MigrationStmts(v)),
                    SchemaAt(v - 1, withNumAnagrams))

\* a row with the columns the schema lacks set to Null
Project(row, schema) ==
    [c \in DOMAIN row |->
       IF Column("alphagrams", c) \in schema THEN row[c] ELSE Null]

SchemaLevel(v) ==
    IF v < 1 THEN 1 ELSE IF v > CurrentVersion THEN CurrentVersion ELSE v

LegacyDatasetWithPrior(ls, family, prior, level, withNum, hasTable, rows) ==
    LET comb == [a \in AlphagramsOf(ls) |-> 1]
        m == populateAlphs(ls, comb)
        sorted == SortByCombos(CHOOSE values \in alphaMapValues(m) : TRUE)
        schema == SchemaAt(level, withNum)
        ranked == RankedRows(sorted, Len(sorted), family, prior).rows
    IN  [exists |-> TRUE,
         schema |-> schema \cup (IF hasTable
                                 THEN CreateTable("db_version", {"version"}).adds
                                 ELSE {}),
         alphagrams |-> [j \in DOMAIN ranked |-> Project(ranked[j], schema)],
         words |-> AllWordRows(sorted, Len(sorted), family, prior),
         deletedwords |-> <<>>,
         db_version |-> rows]

\* a dataset of a lexicon that has no prior edition
LegacyDataset(ls, family, level, withNumAnagrams, versionTable, versionRows) ==
    LegacyDatasetWithPrior(ls, family, None, level, withNumAnagrams,
                           versionTable, versionRows)

\* a version 3 dataset of a TWL lexicon with a prior edition: a class of one
\* word and a class of two words whose symbols differ
GroupedWordList == << <<1, 2>>, <<1, 1>>, <<2, 1>> >>

GroupedDataset ==
    LegacyDatasetWithPrior(GroupedWordList, "TWL",
                           CHOOSE prior \in PriorChoices : prior # None,
                           3, FALSE, TRUE, << 3 >>)

\* a version 1 dataset in which one alphagram has as many word rows as a
\* uint8 has values
WideWordList == [i \in 1..Uint8Mod |-> <<1>>]

WideDataset ==
    LET alph == [words |-> WideWordList, combinations |-> 1,
                 alphagram |-> MakeAlphagram(<<1>>)]
        schema == SchemaAt(1, FALSE)
    IN  [exists |-> TRUE,
         schema |-> schema \cup CreateTable("db_version", {"version"}).adds,
         alphagrams |-> << Project(AlphRow(1, alph, "OTHER", None), schema) >>,
         words |-> [i \in DOMAIN WideWordList |->
                      WordRow(WideWordList[i], alph.alphagram,
                              SymbolsOf(WideWordList[i], "OTHER", None))],
         deletedwords |-> <<>>,
         db_version |-> << 1 >>]

LegacyDatasets ==
    { WideDataset, GroupedDataset }
    \cup
    { LegacyDataset(ls, family, 1, withNum, FALSE, <<>>) :
        ls \in LegacyWordLists, family \in Families, withNum \in BOOLEAN }
    \cup
    { LegacyDataset(ls, family, 1, withNum, TRUE, <<>>) :
        ls \in LegacyWordLists, family \in Families, withNum \in BOOLEAN }
    \cup
    { LegacyDataset(ls, family, SchemaLevel(v), FALSE, TRUE, <<v>>) :
        ls \in LegacyWordLists, family \in Families,
        v \in (0 - 1)..(CurrentVersion + 1) }

(***************************************************************************)
(* FixDefinitions and FixLexiconSymbols.                                   *)
(***************************************************************************)
\* the word lists the maintenance operations scan: none (the file is
\* missing or empty), one that covers a class in part, ones that cover
\* classes whole, and one with words no dataset row has
FixWordLists ==
    { <<>>,
      << <<1, 2>> >>,
      << <<2, 1>>, <<1, 2>> >>,
      << <<1>>, <<1, 1>> >>,
      << <<1, 1>>, <<2, 1>> >> }

\* the start of an invocation of a maintenance operation: os.Stat, sql.Open
StartFix(name) ==
    /\ pc \in Ended
    /\ op' = name
    /\ pre' = NoFile
    /\ tx' = NoTx
    /\ definitions' = {} /\ scanned' = 0 /\ alphagrams' = EmptyMap
    /\ lexFamily' = "OTHER" /\ priorLex' = None
    /\ alphs' = <<>> /\ idx' = 1 /\ probs' = ZeroProbs /\ deletedWords' = <<>>
    /\ insertFailed' = FALSE /\ fileMissing' = FALSE /\ commitFailed' = FALSE
    /\ staleFile' = FALSE /\ altered' = altered /\ versionWrites' = 0
    /\ version' = 0 /\ check' = 0 /\ applied' = <<>>

\* whether tx.Prepare finds the table and the columns of its statement
CanPrepare(d, table, columns) ==
    /\ d.exists
    /\ HasTable(d, table)
    /\ \A c \in columns : Column(table, c) \in d.schema

\* UPDATE words SET definition = ? WHERE word = ?
UpdateDefinition(words, word, def) ==
    [i \in DOMAIN words |->
       IF words[i].word = word THEN [words[i] EXCEPT !.definition = def]
       ELSE words[i]]

\* the loop "for word, def := range definitions" over the keys in some order
RECURSIVE UpdateDefinitions(_, _, _, _)
UpdateDefinitions(words, order, n, defs) ==
    IF n = 0 THEN words
    ELSE UpdateDefinition(UpdateDefinitions(words, order, n - 1, defs),
                          order[n], defs[order[n]])

\* FixDefinitions (lines 325-360): one transaction; an error of Prepare or
\* Exec is fatal before the commit, the error of tx.Commit() is dropped
FixDefinitions ==
    /\ StartFix("fixdefinitions")
    /\ \/ /\ pc' = "fatal"
          /\ db' = db
       \/ /\ CanPrepare(db, "words", {"definition", "word"})
          /\ \E ls \in FixWordLists :
             \E defs \in [definitionWords(ls) -> DefinitionTexts] :
             \E order \in Perms(definitionWords(ls)), ok \in BOOLEAN :
               /\ db' = IF ok
                        THEN [db EXCEPT !.words =
                                UpdateDefinitions(@, order, Len(order), defs)]
                        ELSE db
               /\ pc' = "done"

\* an upsert: the row is inserted when no row has the word
UpsertSymbols(words, word, symbols) ==
    IF \E i \in DOMAIN words : words[i].word = word
    THEN [i \in DOMAIN words |->
            IF words[i].word = word
            THEN [words[i] EXCEPT !.lexicon_symbols = symbols]
            ELSE words[i]]
    ELSE Append(words, WordRow(word, MakeAlphagram(word), symbols))

\* UPDATE words SET lexicon_symbols = ? WHERE word = ?
UpdateSymbols(words, word, symbols) ==
    [i \in DOMAIN words |->
       IF words[i].word = word
       THEN [words[i] EXCEPT !.lexicon_symbols = symbols]
       ELSE words[i]]

\* UPDATE alphagrams SET contains_word_uniq_to_lex_split = ?,
\* contains_update_to_lex = ? WHERE alphagram = ?
UpdateFlags(table, alphagram, uniqToLexSplit, updateToLex) ==
    [j \in DOMAIN table |->
       IF table[j].alphagram = alphagram
       THEN [table[j] EXCEPT
               !.contains_word_uniq_to_lex_split = uniqToLexSplit,
               !.contains_update_to_lex = updateToLex]
       ELSE table[j]]

\* the inner loop over alphagramObj.words, after n words
RECURSIVE FixClassWords(_, _, _, _, _)
FixClassWords(words, alph, n, family, prior) ==
    IF n = 0 THEN words
    ELSE UpdateSymbols(FixClassWords(words, alph, n - 1, family, prior),
                       alph.words[n], SymbolsOf(alph.words[n], family, prior))

\* the loop "for _, alphagramObj := range alphagrams", after n classes
RECURSIVE FixClasses(_, _, _, _, _)
FixClasses(t, values, n, family, prior) ==
    IF n = 0 THEN t
    ELSE LET before == FixClasses(t, values, n - 1, family, prior)
             alph == values[n]
             list == LexSymbolsList(alph, family, prior)
         IN  [before EXCEPT
                !.words = FixClassWords(@, alph, Len(alph.words), family, prior),
                !.alphagrams =
                   UpdateFlags(@, alph.alphagram,
                               containsWordUniqueToLexSplit(list),
                               containsUpdateToLex(list))]

\* FixLexiconSymbols (lines 362-428): one transaction; an error of Prepare or
\* Exec is fatal before the commit, the error of tx.Commit() is dropped
FixLexiconSymbols ==
    /\ StartFix("fixlexiconsymbols")
    /\ \/ /\ pc' = "fatal"
          /\ db' = db
       \/ /\ CanPrepare(db, "alphagrams",
                        {"contains_word_uniq_to_lex_split",
                         "contains_update_to_lex", "alphagram"})
          /\ CanPrepare(db, "words", {"lexicon_symbols", "word"})
          /\ \E ls \in FixWordLists, fam \in Families, prior \in PriorChoices :
             \E values \in alphaMapValues(
                             populateAlphs(ls, [a \in AlphagramsOf(ls) |-> 1])) :
             \E ok \in BOOLEAN :
               /\ db' = IF ok
                        THEN Committed(db, FixClasses(Begin(db), values,
                                                      Len(values), fam, prior))
                        ELSE db
               /\ pc' = "done"

Init ==
    /\ db \in {NoFile} \cup LegacyDatasets
    /\ tx = NoTx
    /\ op = "none"
    /\ pc = "idle"
    /\ definitions = {} /\ scanned = 0 /\ alphagrams = EmptyMap
    /\ lexFamily = "OTHER" /\ priorLex = None
    /\ alphs = <<>> /\ idx = 1 /\ probs = ZeroProbs /\ deletedWords = <<>>
    /\ insertFailed = FALSE /\ fileMissing = FALSE /\ commitFailed = FALSE
    /\ staleFile = FALSE /\ altered = {} /\ versionWrites = 0
    /\ version = 0 /\ check = 0 /\ applied = <<>>
    /\ pre = NoFile

Next == CreateLexiconDatabase \/ MigrateLexiconDatabase

Spec == Init /\ [][Next]_vars

\* the maintenance operations, run any number of times on a dataset that a
\* build or the migrations left at version 3 (no flag columns yet) or 6
MaintainedWordLists ==
    { << <<1, 2>>, <<2, 1>> >>,
      << <<1>>, <<1, 1>> >>,
      << <<1, 2>>, <<1, 2>> >> }

MaintainedDatasets ==
    { LegacyDataset(ls, "OTHER", v, FALSE, TRUE, << v >>) :
        ls \in MaintainedWordLists, v \in {3, CurrentVersion} }

InitMaintenance ==
    /\ Init
    /\ db \in {NoFile} \cup MaintainedDatasets

NextMaintenance == FixDefinitions \/ FixLexiconSymbols

Maintenance == InitMaintenance /\ [][NextMaintenance]_vars

(***************************************************************************)
(* Properties.                                                             *)
(***************************************************************************)
\* the stored version of a dataset that has a version row
StoredVersion(d) == d.db_version[1]

HasVersion(d) == HasTable(d, "db_version") /\ d.db_version # <<>>

Migrating == op = "migrate"
Returned == pc = "done"

\* the dataset is the one this invocation of CreateLexiconDatabase creates:
\* the build was not refused and no old dataset stayed in its place
Building == op = "build" /\ pc # "refused" /\ ~staleFile

\* C1: an invocation of MigrateLexiconDatabase that finds stored version v in
\* 1..5 and returns has run migrateToV<v+1> and nothing else, and leaves the
\* stored version at exactly v+1, although the later checks
\* "if version == v+1" ... are evaluated after the migration ran.
C1_OneTransitionPerInvocation ==
    (Migrating /\ Returned /\ HasVersion(pre)
       /\ StoredVersion(pre) \in 1..(CurrentVersion - 1))
    => /\ applied = << StoredVersion(pre) + 1 >>
       /\ db.db_version = << StoredVersion(pre) + 1 >>
       /\ check = CurrentVersion - 1

C1_Witness ==
    /\ Migrating /\ Returned
    /\ pre.db_version = <<1>>
    /\ db.db_version = <<2>>
    /\ Len(db.words) > 1

\* C2: during and after an invocation of MigrateLexiconDatabase that finds
\* stored version CurrentVersion, the dataset is what it was: no schema
\* statement, no row update and no version write happens, and no
\* migrateToV<n> is entered. This covers a dataset that
\* CreateLexiconDatabase has just built.
C2_CurrentVersionIsNoOp ==
    (Migrating /\ HasVersion(pre) /\ StoredVersion(pre) = CurrentVersion)
    => /\ db = pre
       /\ applied = <<>>
       /\ ~tx.open
       /\ pc \in {"m_check", "done", "fatal"}

C2_Witness ==
    /\ Migrating /\ Returned
    /\ pre.db_version = <<CurrentVersion>>
    /\ pre.deletedwords # <<>>
    /\ Len(pre.alphagrams) > 1
    /\ db = pre

\* C3: an invocation of MigrateLexiconDatabase that finds a stored version
\* outside 1..6 never returns normally and never changes the dataset.
C3_UnknownVersionIsFatal ==
    (Migrating /\ HasVersion(pre)
       /\ StoredVersion(pre) \notin 1..CurrentVersion)
    => /\ ~Returned
       /\ db = pre

\* C4: an invocation of MigrateLexiconDatabase that finds no version table
\* creates it with the single row 1 and, when it returns, has run
\* migrateToV2 and nothing else: the stored version is 2.
C4_BootstrapThenOneTransition ==
    (Migrating /\ ~HasTable(pre, "db_version"))
    => /\ (pc \in {"m_alter", "m_backfill", "m_commit", "m_setversion"}
               \/ (pc = "m_check" /\ check = 1)
             => /\ db.db_version = <<1>>
                /\ HasTable(db, "db_version")
                /\ version = 1)
       /\ (Returned => /\ db.db_version = <<2>>
                       /\ applied = <<2>>)

C4_Witness ==
    /\ Migrating /\ Returned
    /\ ~HasTable(pre, "db_version")
    /\ pre.exists
    /\ Len(pre.words) > 1
    /\ db.db_version = <<2>>

\* C5: an invocation of MigrateLexiconDatabase that finds a version table
\* without a row ends fatally at once: nothing is inserted, no migration is
\* entered and the dataset is unchanged. A version query that fails although
\* the table exists is fatal with the dataset unchanged as well.
C5_EmptyVersionTableIsFatal ==
    (Migrating /\ HasTable(pre, "db_version"))
    => /\ (pre.db_version = <<>>
             => pc = "fatal" /\ db = pre /\ applied = <<>> /\ check = 0)
       /\ (pc = "fatal" /\ check = 0 => db = pre /\ applied = <<>>)

C5_Witness ==
    /\ Migrating /\ pc = "fatal"
    /\ HasTable(pre, "db_version")
    /\ pre.db_version = <<>>
    /\ db = pre

\* C6: once an insert of a word row or of an alphagram row has failed in
\* CreateLexiconDatabase, the process has ended at that failure: the build
\* is not running any more, and no alphagram row, no word row and no
\* version row is committed.
C6_FirstFailedInsertEndsBuild ==
    (Building /\ insertFailed)
    => /\ pc = "fatal"
       /\ db.alphagrams = <<>>
       /\ db.words = <<>>
       /\ db.db_version = <<>>

\* the rows CreateLexiconDatabase computes from its input
ComputedAlphagrams == RankedRows(alphs, Len(alphs), lexFamily, priorLex).rows
ComputedWords == AllWordRows(alphs, Len(alphs), lexFamily, priorLex)
ComputedDeleted ==
    IF priorLex = None THEN {}
    ELSE { w \in definitionWords(priorLex) : ~FindWord(definitions, w) }

\* C7: in every state of a dataset that CreateLexiconDatabase builds, a
\* version row means that every computed alphagram row, every computed word
\* row and every detected deleted word is committed.
C7_VersionStampMeansComplete ==
    (Building /\ db.db_version # <<>>)
    => /\ db.alphagrams = ComputedAlphagrams
       /\ db.words = ComputedWords
       /\ { db.deletedwords[i].word : i \in DOMAIN db.deletedwords }
            = ComputedDeleted

\* the dataset as the migration step of the invocation found it: what the
\* invocation found, with the version table when the invocation created it
BeforeStep ==
    IF HasTable(pre, "db_version") THEN pre
    ELSE [pre EXCEPT !.exists = TRUE,
                     !.schema = @ \cup CreateTable("db_version", {"version"}).adds,
                     !.db_version = <<1>>]

\* C8: when a migration step migrateToV<n> ends on a failing statement, the
\* dataset is exactly as it was before the step began.
C8_MigrationStepAllOrNothing ==
    (Migrating /\ pc = "fatal" /\ applied # <<>>) => db = BeforeStep

\* the key of the ranking: combinations descending, alphagram ascending
Precedes(a, b) ==
    \/ a.combinations > b.combinations
    \/ a.combinations = b.combinations /\ LexLess(a.alphagram, b.alphagram)

\* 1 + the number of alphagrams of the input of the same length before the row
RankOf(row) ==
    1 + Cardinality({ k \in DOMAIN alphs :
                        /\ Len(alphs[k].alphagram) = row.length
                        /\ Precedes(alphs[k], row) })

RanksRight(table) ==
    \A j \in DOMAIN table :
      table[j].length <= MaxRankedLen => table[j].probability = RankOf(table[j])

Cohort(table, l) == { j \in DOMAIN table : table[j].length = l }

\* C9: every alphagram row of length <= 15 that CreateLexiconDatabase
\* writes has probability 1 + the number of alphagrams of the input of the
\* same length that precede it under (combinations descending, alphagram
\* ascending); so in a complete table the ranks of each length are exactly
\* 1..K, do not increase with the combination count, and among equal counts
\* the smaller alphagram has the smaller rank.
C9_ProbabilityIsRankInCohort ==
    Building
    => /\ RanksRight(tx.alphagrams)
       /\ RanksRight(db.alphagrams)
       /\ (Len(db.alphagrams) = Len(alphs)
             => \A l \in 1..MaxRankedLen :
                  /\ { db.alphagrams[j].probability : j \in Cohort(db.alphagrams, l) }
                       = 1..Cardinality(Cohort(db.alphagrams, l))
                  /\ \A i \in Cohort(db.alphagrams, l) :
                     \A j \in Cohort(db.alphagrams, l) :
                       LET a == db.alphagrams[i]
                           b == db.alphagrams[j]
                       IN  /\ (a.combinations > b.combinations
                                 => a.probability < b.probability)
                           /\ (a.combinations = b.combinations
                                 /\ LexLess(a.alphagram, b.alphagram)
                                 => a.probability < b.probability))

C9_Witness ==
    /\ op = "build" /\ pc = "done"
    /\ Len(db.alphagrams) = 3
    /\ \E i \in DOMAIN db.alphagrams : \E j \in DOMAIN db.alphagrams :
         /\ db.alphagrams[i].length = db.alphagrams[j].length
         /\ db.alphagrams[i].combinations = db.alphagrams[j].combinations
         /\ db.alphagrams[i].probability = 1
         /\ db.alphagrams[j].probability = 2
    /\ \E k \in DOMAIN db.alphagrams :
         db.alphagrams[k].length = 1 /\ db.alphagrams[k].combinations = 2

\* C10: a build whose input has a word of more than 15 letters has no
\* run-time failure: it writes the rows of that alphagram and reaches the
\* version stamp.
C10_LongWordBuildRuns ==
    (Building /\ \E w \in definitions : Len(w) > MaxRankedLen)
    => pc # "panic"

\* C11: after populateAlphsDefs has scanned a word list, the alphagram map
\* partitions the scanned words by canonical alphagram: every scanned word
\* is in exactly one class, a class's key and alphagram field are the
\* canonical alphagram of each of its members, no two classes share an
\* alphagram, no class is empty, alphs holds exactly the classes of the map,
\* and the length written for a class is the character count of its
\* alphagram.
C11_AlphagramMapIsPartition ==
    /\ \A w \in definitions :
         /\ Cardinality({ a \in DOMAIN alphagrams :
                            w \in Range(alphagrams[a].words) }) = 1
         /\ MakeAlphagram(w) \in DOMAIN alphagrams
         /\ w \in Range(alphagrams[MakeAlphagram(w)].words)
    /\ \A a \in DOMAIN alphagrams :
         /\ alphagrams[a].alphagram = a
         /\ alphagrams[a].words # <<>>
         /\ \A i \in DOMAIN alphagrams[a].words :
              /\ alphagrams[a].words[i] \in definitions
              /\ MakeAlphagram(alphagrams[a].words[i]) = a
    /\ Len(alphs) = Cardinality(DOMAIN alphagrams)
    /\ Range(alphs) = { alphagrams[a] : a \in DOMAIN alphagrams }
    /\ \A j \in DOMAIN tx.alphagrams :
         tx.alphagrams[j].length = Len(tx.alphagrams[j].alphagram)
    /\ Building =>
         \A j \in DOMAIN db.alphagrams :
           db.alphagrams[j].length = Len(db.alphagrams[j].alphagram)

C11_Witness ==
    /\ op = "build" /\ pc = "done"
    /\ scanned = 3
    /\ Cardinality(DOMAIN alphagrams) = 2
    /\ \E a \in DOMAIN alphagrams : alphagrams[a].words = << <<2, 1>>, <<1, 2>> >>
    /\ Len(db.alphagrams) = 2

\* a build that returned and in which no statement and no commit returned an
\* error
Successful ==
    Building /\ pc = "done" /\ ~insertFailed /\ ~commitFailed

RECURSIVE SumNumAnagrams(_)
SumNumAnagrams(table) ==
    IF table = <<>> THEN 0
    ELSE table[1].num_anagrams + SumNumAnagrams(Tail(table))

\* C12: after a successful build from a word list whose N distinct words are
\* on one line each and form M distinct alphagrams, the words table has
\* exactly N rows, one per word, the alphagrams table has exactly M rows, and
\* the num_anagrams of the alphagram rows add up to N.
C12_RowCounts ==
    (Successful /\ scanned = Cardinality(definitions))
    => /\ Len(db.words) = Cardinality(definitions)
       /\ { db.words[i].word : i \in DOMAIN db.words } = definitions
       /\ Len(db.alphagrams) = Cardinality({ MakeAlphagram(w) : w \in definitions })
       /\ SumNumAnagrams(db.alphagrams) = Cardinality(definitions)

C12_Witness ==
    /\ Successful
    /\ scanned = 3 /\ Cardinality(definitions) = 3
    /\ Len(db.words) = 3
    /\ Len(db.alphagrams) = 2

\* C13: after a successful build from any word list, also one that has a
\* word on more than one line, the words table has exactly one row per
\* distinct upper-cased word, the alphagrams table one row per alphagram,
\* and num_anagrams is the number of distinct words of the class.
C13_EveryWordOnce ==
    Successful
    => /\ Len(db.words) = Cardinality(definitions)
       /\ { db.words[i].word : i \in DOMAIN db.words } = definitions
       /\ Len(db.alphagrams) = Cardinality({ MakeAlphagram(w) : w \in definitions })
       /\ \A j \in DOMAIN db.alphagrams :
            db.alphagrams[j].num_anagrams =
              Cardinality({ w \in definitions :
                              MakeAlphagram(w) = db.alphagrams[j].alphagram })

Marker(present, marker) == IF present THEN <<marker>> ELSE <<>>

\* the update marker, the CSW-only marker and the TWL-only marker, each iff
\* its condition holds, in this order
ExpectedSymbols(word, family, prior) ==
    Marker(prior # None /\ word \notin Range(prior), "+")
      \o Marker(family = "CSW" /\ word \notin LatestTWLWords, "#")
      \o Marker(family = "TWL" /\ word \notin LatestCSWWords, "$")

Occurrences(symbols, marker) ==
    Cardinality({ i \in DOMAIN symbols : symbols[i] = marker })

SymbolsRight(table) ==
    \A i \in DOMAIN table :
      LET symbols == table[i].lexicon_symbols
      IN  /\ symbols = ExpectedSymbols(table[i].word, lexFamily, priorLex)
          /\ \A marker \in {"+", "#", "$"} : Occurrences(symbols, marker) <= 1
          /\ lexFamily \notin {"CSW", "TWL"} => Range(symbols) \subseteq {"+"}
          /\ priorLex = None => "+" \notin Range(symbols)

\* C14: the symbols findLexSymbols returns, as the build stores them with
\* each word, are the update marker iff there is a prior edition without the
\* word, then the CSW-only marker iff the family is CSW and the latest TWL
\* edition lacks the word, then the TWL-only marker iff the family is TWL
\* and the latest CSW edition lacks the word; no marker occurs twice, a
\* family other than CSW and TWL gets the update marker at most, and without
\* a prior edition there is no update marker.  The same holds of the result
\* for every word of the universe under the family and prior edition of the
\* build.
C14_SymbolsAreTheMarkersInOrder ==
    Building
    => /\ SymbolsRight(tx.words)
       /\ SymbolsRight(db.words)
       /\ \A word \in WordUniverse \cup { <<2, 5>> } :
            findLexSymbols(word, LatestCSWWords, LatestTWLWords, lexFamily,
                           priorLex)
              = ExpectedSymbols(word, lexFamily, priorLex)

C14_Witness ==
    /\ op = "build" /\ pc = "done"
    /\ lexFamily = "CSW" /\ priorLex # None
    /\ \E i \in DOMAIN db.words : db.words[i].lexicon_symbols = <<"+", "#">>
    /\ \E i \in DOMAIN db.words : db.words[i].lexicon_symbols = <<"+">>
    /\ \E i \in DOMAIN db.words : db.words[i].lexicon_symbols = <<>>

\* whether a word row of the alphagram stores one of the markers
MemberStores(words, alphagram, markers) ==
    \E i \in DOMAIN words :
      /\ words[i].alphagram = alphagram
      /\ Range(words[i].lexicon_symbols) \cap markers # {}

FlagsRight(alphagramRows, wordRows) ==
    \A j \in DOMAIN alphagramRows :
      LET row == alphagramRows[j]
      IN  /\ row.contains_word_uniq_to_lex_split =
                (IF MemberStores(wordRows, row.alphagram, {"$", "#"})
                 THEN 1 ELSE 0)
          /\ row.contains_update_to_lex =
                (IF MemberStores(wordRows, row.alphagram, {"+"}) THEN 1 ELSE 0)

\* C15: for every alphagram row CreateLexiconDatabase writes,
\* contains_word_uniq_to_lex_split is 1 iff a stored word row of the
\* alphagram has '$' or '#' in its lexicon_symbols, and
\* contains_update_to_lex is 1 iff a stored word row of the alphagram has
\* '+'; otherwise the flag is 0.
C15_FlagsMatchStoredSymbols ==
    Building
    => /\ FlagsRight(tx.alphagrams, tx.words)
       /\ FlagsRight(db.alphagrams, db.words)

\* C16: after a successful build the deletedwords table has exactly one row
\* for each word of the prior edition's word list that the dictionary of
\* the current lexicon lacks, and no other row; the rows are in ascending
\* order of the word; without a prior edition no deleted word is looked for
\* and the table stays empty.
C16_DeletedWordsExactAndSorted ==
    Successful
    => /\ { db.deletedwords[i].word : i \in DOMAIN db.deletedwords }
            = ComputedDeleted
       /\ Len(db.deletedwords) = Cardinality(ComputedDeleted)
       /\ \A i \in DOMAIN db.deletedwords : \A j \in DOMAIN db.deletedwords :
            i < j => LexLess(db.deletedwords[i].word, db.deletedwords[j].word)
       /\ priorLex = None => db.deletedwords = <<>> /\ deletedWords = <<>>

C16_Witness ==
    /\ Successful
    /\ Len(db.words) > 1
    /\ Len(db.deletedwords) = 2
    /\ db.deletedwords[1].word = <<1, 1>>
    /\ db.deletedwords[2].word = <<2, 5>>

\* C17: when the word list file cannot be opened, CreateLexiconDatabase has
\* ended fatally with no partial output: it opens no transaction, and no
\* dataset file with tables and no version row is left.
C17_MissingWordListAborts ==
    (Building /\ fileMissing)
    => /\ pc = "fatal"
       /\ ~tx.open
       /\ db.schema = {}
       /\ db.db_version = <<>>

\* the schema of a dataset createSqliteDb has just created
FreshSchema == ApplyStmts(CreateDbStmts, Len(CreateDbStmts), {})

BuildStep == op = "build" /\ op' = "build" /\ pc \notin Ended

RowsOf(t) == << t.alphagrams, t.words >>

\* C19: the persistence events of CreateLexiconDatabase happen in this
\* order.  The main transaction begins on an empty dataset; alphagram and
\* word rows are inserted only inside it; it is committed only when every
\* alphagram has been handled, and nothing else is written by the commit;
\* deleted words are written only after the main transaction has ended,
\* only when at least one was found, in a step that writes nothing else;
\* the version stamp is written only after that, outside any transaction,
\* as the last write of the invocation.
C19_PersistenceOrder ==
    [][ BuildStep =>
        /\ (~tx.open /\ tx'.open)
             => /\ pc = "b_prepare" /\ db' = db
                /\ RowsOf(tx') = << <<>>, <<>> >> /\ RowsOf(db) = << <<>>, <<>> >>
                /\ db.deletedwords = <<>> /\ db.db_version = <<>>
        /\ (RowsOf(tx') # RowsOf(tx) /\ tx'.open)
             => tx.open /\ pc = "b_loop" /\ db' = db
        /\ (tx.open /\ ~tx'.open) => pc = "b_loop"
        /\ (RowsOf(db') # RowsOf(db))
             => /\ tx.open /\ ~tx'.open
                /\ pc = "b_loop" /\ idx = Len(alphs) + 1 /\ pc' = "b_deleted"
                /\ RowsOf(db') = RowsOf(tx)
                /\ db'.deletedwords = db.deletedwords
                /\ db'.db_version = db.db_version
        /\ (pc' = "b_deleted" /\ pc # "b_deleted")
             => pc = "b_loop" /\ idx = Len(alphs) + 1 /\ tx.open /\ ~tx'.open
        /\ (db'.deletedwords # db.deletedwords)
             => /\ pc = "b_deleted" /\ ~tx.open /\ ~tx'.open
                /\ deletedWords # <<>>
                /\ RowsOf(db') = RowsOf(db)
                /\ db.db_version = <<>> /\ db'.db_version = <<>>
        /\ (pc = "b_deleted" /\ deletedWords = <<>>) => db' = db
        /\ (pc' = "b_version" /\ pc # "b_version") => pc = "b_deleted"
        /\ (db'.db_version # db.db_version)
             => /\ pc = "b_version" /\ pc' = "done"
                /\ ~tx.open /\ ~tx'.open
                /\ db.db_version = <<>> /\ db'.db_version = <<CurrentVersion>>
                /\ RowsOf(db') = RowsOf(db)
                /\ db'.deletedwords = db.deletedwords
      ]_vars

C19_Witness ==
    /\ op = "build" /\ pc = "done"
    /\ Len(db.alphagrams) > 1
    /\ Len(db.words) > Len(db.alphagrams)
    /\ db.deletedwords # <<>>
    /\ db.db_version = <<CurrentVersion>>

\* C20: over all invocations of MigrateLexiconDatabase on one dataset file,
\* the schema statements of migrateToV<n> are executed at most once: they
\* are never executed on a dataset whose schema an earlier execution of
\* them has altered.
C20_AlterationAtMostOnce ==
    [][ (op = "migrate" /\ pc = "m_alter" /\ pc' # "m_alter")
          => (check + 1) \notin altered ]_vars

\* C21 as stated: the stored version is written exactly once by every build
\* that ends normally and exactly once by every migrator invocation that
\* returns after applying a transition, whatever dataset it found, the
\* dataset without a version table included; an invocation that finds
\* version 6 writes it zero times.
C21_VersionWrittenOncePerInvocation ==
    /\ (op = "build" /\ pc = "done") => versionWrites = 1
    /\ (Migrating /\ Returned /\ applied # <<>>) => versionWrites = 1
    /\ (Migrating /\ Returned /\ HasVersion(pre)
          /\ StoredVersion(pre) = CurrentVersion) => versionWrites = 0

\* C21, amended: as above for a dataset that has a version table; an
\* invocation that finds no version table and returns writes the stored
\* version twice, the INSERT of 1 and the UPDATE to 2.
C21_VersionWritesPerInvocation ==
    /\ (op = "build" /\ pc = "done") => versionWrites = 1
    /\ (Migrating /\ Returned /\ applied # <<>>) =>
          versionWrites = (IF HasTable(pre, "db_version") THEN 1 ELSE 2)
    /\ (Migrating /\ Returned /\ HasVersion(pre)
          /\ StoredVersion(pre) = CurrentVersion) => versionWrites = 0

C21_Witness ==
    /\ Migrating /\ Returned
    /\ ~HasTable(pre, "db_version")
    /\ applied = << 2 >>
    /\ versionWrites = 2
    /\ db.db_version = << 2 >>

\* the tables of d with the named columns blanked out
WithoutColumns(rows, columns) ==
    [i \in DOMAIN rows |->
       [c \in DOMAIN rows[i] |-> IF c \in columns THEN Null ELSE rows[i][c]]]

\* what neither maintenance operation may touch
KeepsFrame(before, after, wordColumns, alphagramColumns) ==
    /\ after.exists = before.exists
    /\ after.schema = before.schema
    /\ after.db_version = before.db_version
    /\ after.deletedwords = before.deletedwords
    /\ WithoutColumns(after.words, wordColumns)
         = WithoutColumns(before.words, wordColumns)
    /\ WithoutColumns(after.alphagrams, alphagramColumns)
         = WithoutColumns(before.alphagrams, alphagramColumns)

\* C22: a run of FixDefinitions changes nothing but the definition column of
\* words rows that exist, and a run of FixLexiconSymbols nothing but
\* words.lexicon_symbols and the two flags of alphagrams rows that exist: no
\* row is inserted or deleted, no key, probability, statistic, schema item
\* or stored version changes.
C22_MaintenanceFrame ==
    [][ /\ op' = "fixdefinitions" =>
             KeepsFrame(db, db', {"definition"}, {})
        /\ op' = "fixlexiconsymbols" =>
             KeepsFrame(db, db', {"lexicon_symbols"},
                        {"contains_word_uniq_to_lex_split",
                         "contains_update_to_lex"}) ]_vars

C22_Witness ==
    /\ op = "fixlexiconsymbols" /\ pc = "done"
    /\ \E i \in DOMAIN db.words :
         /\ Contains(db.words[i].lexicon_symbols, LexiconUpdateSymbol)
         /\ db.words[i].definition = "edited text"
    /\ \E i \in DOMAIN db.words : db.words[i].lexicon_symbols = <<>>
    /\ \E j \in DOMAIN db.alphagrams : db.alphagrams[j].contains_update_to_lex = 1

\* the five columns of an alphagram row that C23 is about
RankedColumns(row) ==
    [alphagram |-> row.alphagram, length |-> row.length,
     combinations |-> row.combinations, num_anagrams |-> row.num_anagrams,
     probability |-> row.probability]

\* the row of alphagram a as a function of the classes alone: of the set of
\* keys, the number of words of each class and its combination count,
\* whatever order the lines or the map yielded them in
RowOfClass(m, a) ==
    [alphagram |-> a, length |-> Len(a),
     combinations |-> m[a].combinations,
     num_anagrams |-> Len(m[a].words),
     probability |->
       1 + Cardinality({ b \in DOMAIN m : Len(b) = Len(a) /\ Precedes(m[b], m[a]) })]

\* C23: the alphagram rows of a successful build, probability included, are
\* a function of the input words only: for every order of the lines of the
\* word list and every order in which the map yields its values, the rows
\* (alphagram, length, combinations, num_anagrams, probability) are the same
\* set, one row per class.
C23_RowsIndependentOfOrder ==
    Successful
    => /\ { RankedColumns(db.alphagrams[j]) : j \in DOMAIN db.alphagrams }
            = { RowOfClass(alphagrams, a) : a \in DOMAIN alphagrams }
       /\ Len(db.alphagrams) = Cardinality(DOMAIN alphagrams)

\* a successful build of three classes, two of them of one length with
\* equal combination counts, and two with different counts
C23_Witness ==
    /\ Successful
    /\ Len(db.alphagrams) = 3
    /\ \E a \in DOMAIN alphagrams : \E b \in DOMAIN alphagrams :
         /\ a # b /\ Len(a) = Len(b)
         /\ alphagrams[a].combinations = alphagrams[b].combinations
    /\ \E a \in DOMAIN alphagrams : \E b \in DOMAIN alphagrams :
         alphagrams[a].combinations < alphagrams[b].combinations

\* the number of words rows of d that reference the alphagram
WordRowsOf(d, alphagram) ==
    Cardinality({ i \in DOMAIN d.words : d.words[i].alphagram = alphagram })

\* C24: when an invocation has run migrateToV2 to its end and its commit
\* did not fail, every alphagram row with at least one words row has
\* num_anagrams equal to the number of words rows that reference it,
\* whatever that number is (256 and more included), and point_value and
\* num_vowels as CreateLexiconDatabase computes them.
C24_BackfillMatchesBuild ==
    (Migrating /\ Returned /\ applied = << 2 >> /\ ~commitFailed)
    => \A j \in DOMAIN db.alphagrams :
         LET row == db.alphagrams[j]
         IN  WordRowsOf(db, row.alphagram) > 0
             => /\ row.num_anagrams = WordRowsOf(db, row.alphagram)
                /\ row.point_value = pointValue(row.alphagram)
                /\ row.num_vowels = numVowels(row.alphagram)

\* the lexicon_symbols of the words rows of d that reference the alphagram
SymbolsOfRows(d, alphagram) ==
    LET rows == SelectSeq(d.words, LAMBDA r : r.alphagram = alphagram)
    IN  [i \in DOMAIN rows |-> rows[i].lexicon_symbols]

\* C25: when an invocation has run migrateToV4 to its end and its commit
\* did not fail, every alphagram row with at least one words row has
\* contains_word_uniq_to_lex_split and contains_update_to_lex equal to
\* containsWordUniqueToLexSplit and containsUpdateToLex of the
\* lexicon_symbols of exactly the words rows of that alphagram.
C25_FlagsOfExactlyTheGroup ==
    (Migrating /\ Returned /\ applied = << 4 >> /\ ~commitFailed)
    => \A j \in DOMAIN db.alphagrams :
         LET row == db.alphagrams[j]
             list == SymbolsOfRows(db, row.alphagram)
         IN  list # <<>>
             => /\ row.contains_word_uniq_to_lex_split
                     = containsWordUniqueToLexSplit(list)
                /\ row.contains_update_to_lex = containsUpdateToLex(list)

\* migrateToV4 has run on a dataset with a group of one row and a group of
\* two rows whose flags differ in both columns
C25_Witness ==
    /\ Migrating /\ Returned /\ applied = << 4 >> /\ ~commitFailed
    /\ Len(db.words) = 3
    /\ \E j \in DOMAIN db.alphagrams : \E k \in DOMAIN db.alphagrams :
         /\ WordRowsOf(db, db.alphagrams[j].alphagram) = 2
         /\ db.alphagrams[j].contains_word_uniq_to_lex_split = 0
         /\ db.alphagrams[j].contains_update_to_lex = 1
         /\ WordRowsOf(db, db.alphagrams[k].alphagram) = 1
         /\ db.alphagrams[k].contains_word_uniq_to_lex_split = 1
         /\ db.alphagrams[k].contains_update_to_lex = 0

\* C26: every deletedwords row (w, n) a build writes has n equal to the
\* number of characters of w, the measure of alphagrams.length, also when w
\* has letters that take more than one byte.
C26_DeletedLengthIsCharacterCount ==
    Building
    => \A i \in DOMAIN db.deletedwords :
         db.deletedwords[i].length = RuneLen(db.deletedwords[i].word)

\* C27: over the steps of MigrateLexiconDatabase the stored version never
\* decreases and never skips a value, and once it is 6 it stays 6; every
\* invocation that returns (no statement of it failed) has advanced a
\* dataset found at version v in 1..5 to exactly v + 1 and a dataset found
\* without a version table to exactly 2, and has left version 6 at 6: so a
\* dataset at version v is at 6 after exactly 6 - v such invocations, and
\* one without a version table after exactly 5.
C27_OneVersionPerInvocation ==
    [][ op' = "migrate" =>
          /\ HasVersion(db) =>
               /\ HasVersion(db')
               /\ StoredVersion(db') \in
                    {StoredVersion(db), StoredVersion(db) + 1}
               /\ StoredVersion(db) = CurrentVersion
                    => StoredVersion(db') = CurrentVersion
          /\ (pc # "done" /\ pc' = "done") =>
               /\ (HasVersion(pre') /\ StoredVersion(pre') \in 1..CurrentVersion)
                    => (HasVersion(db')
                        /\ StoredVersion(db') =
                             (IF StoredVersion(pre') = CurrentVersion
                              THEN CurrentVersion ELSE StoredVersion(pre') + 1))
               /\ ~HasTable(pre', "db_version")
                    => (HasVersion(db') /\ StoredVersion(db') = 2) ]_vars

\* the fifth invocation in a row has returned: the file has been altered by
\* every migrateToV<n> and is at version 6
C27_Witness ==
    /\ Migrating /\ Returned
    /\ altered = 2..CurrentVersion
    /\ applied = << CurrentVersion >>
    /\ pre.db_version = << CurrentVersion - 1 >>
    /\ db.db_version = << CurrentVersion >>

\* the minimum schema the comment on MigrateLexiconDatabase documents
DocumentedSchema == SchemaAt(1, TRUE)

\* C28: when an invocation that found a dataset with exactly the documented
\* minimum schema and no version table reaches migrateToV2, every statement
\* of migrateToV2's script can be executed: none of the columns and indices
\* it adds is in the documented schema already.
C28_DocumentedSchemaMigrates ==
    (Migrating /\ pc = "m_alter" /\ check + 1 = 2
       /\ pre.schema = DocumentedSchema)
    => CanApplyFirst(MigrationStmts(2), Len(MigrationStmts(2)), db.schema)

\* C29: a dataset that the migrator has taken to version 6, through every
\* transition from the legacy schema on, has the tables, the columns of
\* each table and the indices of the schema createSqliteDb creates, and no
\* others.
C29_MigratedSchemaIsFreshSchema ==
    (Migrating /\ HasVersion(db) /\ StoredVersion(db) = CurrentVersion)
    => db.schema = FreshSchema

\* the five transitions have run in this file, one invocation each
C29_Witness ==
    /\ Migrating /\ Returned
    /\ altered = 2..CurrentVersion
    /\ StoredVersion(db) = CurrentVersion
    /\ db.schema = ApplyStmts(CreateDbStmts, Len(CreateDbStmts), {})
    /\ Len(db.alphagrams) > 1

\* a version table as the tool leaves it: one row, with a version of 1..6
OneVersionRow(d) ==
    /\ HasTable(d, "db_version")
    /\ Len(d.db_version) = 1
    /\ d.db_version[1] \in 1..CurrentVersion

\* C30: a row is inserted into the version table only by a build into the
\* empty table it has just created, or by the migrator into the table it
\* has just created; every other write of the version updates the one row
\* there is; so a build that ends normally leaves exactly one row, and so
\* does a migrator invocation that returns on a dataset found with no
\* version table or with one row of 1..6, and the row's value is in 1..6.
C30_SingleVersionRow ==
    [][ /\ Len(db'.db_version) > Len(db.db_version) =>
             /\ db.db_version = <<>>
             /\ Len(db'.db_version) = 1
             /\ \/ /\ op = "build" /\ ~staleFile /\ pre = NoFile
                   /\ db'.db_version[1] = CurrentVersion
                \/ /\ op = "migrate"
                   /\ ~HasTable(db, "db_version")
                   /\ db'.db_version[1] = 1
        /\ (db'.db_version # db.db_version
              /\ Len(db'.db_version) = Len(db.db_version)) =>
             /\ op = "migrate"
             /\ OneVersionRow(db) => OneVersionRow(db')
        /\ (pc # "done" /\ pc' = "done" /\ op' = "build") => OneVersionRow(db')
        /\ (pc # "done" /\ pc' = "done" /\ op' = "migrate"
              /\ (OneVersionRow(pre') \/ ~HasTable(pre', "db_version")))
             => OneVersionRow(db') ]_vars

\* the migrator has returned on a dataset that a build with deleted words
\* left at version 6
C30_Witness ==
    /\ Migrating /\ Returned
    /\ db.deletedwords # <<>>
    /\ OneVersionRow(db)
    /\ versionWrites = 0

====
